---- MODULE Spec2Model ----
(***************************************************************************)
(* A model of the HTTP core of the DataAPI C++ SDK: the authentication     *)
(* providers, the URL utilities, HttpClient (construction, the request     *)
(* pipeline, the mutators) and the process-wide libcurl initialisation.    *)
(*                                                                         *)
(* Strings whose characters the code inspects (URLs, secrets, header       *)
(* values) are sequences of one-character strings; header names are atoms  *)
(* with an explicit lower-casing table.                                    *)
(***************************************************************************)
EXTENDS Integers, Sequences, FiniteSets, TLC

VARIABLES
    config,        \* HttpClient::config (ClientConfig)
    authProvider,  \* HttpClient::authProvider (the provider object it points to)
    pc,            \* position of the calling thread inside HttpClient::request
    req,           \* the HttpRequestConfig of the call in progress / last call
    easy,          \* options set on the CURL easy handle of that call
    server,        \* what the server would answer to attempt 1, 2, ... of that call
    attempts,      \* number of curl_easy_perform calls made by that call
    result,        \* what the call surfaced to its caller
    snaps,         \* history: the engine settings that existed during the call
    sleeps,        \* the milliseconds that call slept before each of its retries
    refreshes,     \* number of AuthenticationProvider::refresh calls made by that call
    engines,       \* lifecycle state of each HttpClient object
    curlInits,     \* number of curl_global_init calls made
    curlCleanups,  \* number of curl_global_cleanup calls made
    curlRefs,      \* libcurl's own initialisation count
    dataApiClient, \* DataApiClient::config_ and the HttpClient object that
                   \* DataApiClient::httpClient_ points to
    client,        \* what the caller of the verb helper (testConnection, a
                   \* resource client) made of the call: its operation and outcome
    wiped          \* history: the provider as it was when clearAuthentication
                   \* last ran on it, until new credentials are supplied

vars == <<config, authProvider, pc, req, easy, server, attempts, result, snaps, sleeps,
          refreshes, engines, curlInits, curlCleanups, curlRefs, dataApiClient, client,
          wiped>>

callVars == <<pc, req, easy, server, attempts, result, snaps, sleeps, refreshes>>
lifeVars == <<engines, curlInits, curlCleanups, curlRefs, dataApiClient>>

-----------------------------------------------------------------------------
(* Bounds of the model *)

\* longest user name and longest password of a BasicAuthProvider explored
MaxUserLen == 2
MaxPasswordLen == 3
\* longest base and longest path handed to joinPath
MaxFragmentLen == 2
\* largest ClientConfig::maxRetries explored
MaxRetriesBound == 2
\* number of HttpClient objects in the lifecycle specification
MaxEngines == 3
\* number of mutator calls that may run while one request is in flight
MaxMutations == 2

-----------------------------------------------------------------------------
(* Strings *)

Last(s) == s[Len(s)]

\* ASCII codes of the characters the model's strings are made of
CharCode ==
    ("a" :> 97) @@ ("b" :> 98) @@ ("h" :> 104) @@ ("k" :> 107) @@ ("p" :> 112) @@
    ("t" :> 116) @@ ("u" :> 117) @@ ("v" :> 118) @@ ("w" :> 119) @@ ("x" :> 120) @@
    ("/" :> 47) @@ (":" :> 58) @@ (" " :> 32) @@ ("%" :> 37) @@ ("&" :> 38) @@
    ("=" :> 61) @@ ("+" :> 43) @@ ("?" :> 63) @@ ("-" :> 45) @@ ("_" :> 95) @@
    ("." :> 46) @@ ("~" :> 126) @@ ("1" :> 49) @@ ("2" :> 50) @@
    ("s" :> 115) @@ ("0xE9" :> 233)

HexDigits == <<"0","1","2","3","4","5","6","7","8","9","A","B","C","D","E","F">>

\* std::isalnum on the model's alphabet
IsAlnum(c) ==
    LET n == CharCode[c]
    IN  \/ (n >= 48 /\ n <= 57)
        \/ (n >= 65 /\ n <= 90)
        \/ (n >= 97 /\ n <= 122)

-----------------------------------------------------------------------------
(* UrlUtils *)

\* UrlUtils::encode, one character
EncodeChar(c) ==
    IF IsAlnum(c) \/ c = "-" \/ c = "_" \/ c = "." \/ c = "~"
    THEN <<c>>
    ELSE <<"%", HexDigits[(CharCode[c] \div 16) + 1], HexDigits[(CharCode[c] % 16) + 1]>>

RECURSIVE encode(_)
encode(value) ==
    IF value = <<>> THEN <<>> ELSE EncodeChar(Head(value)) \o encode(Tail(value))

\* UrlUtils::buildQueryString; params is a std::map, here the sequence of its
\* <<key, value>> entries in key order
RECURSIVE buildQueryString(_)
buildQueryString(params) ==
    IF params = <<>> THEN <<>>
    ELSE LET p == params[Len(params)]
             front == SubSeq(params, 1, Len(params) - 1)
         IN  (IF front = <<>> THEN <<>> ELSE buildQueryString(front) \o <<"&">>)
             \o encode(p[1]) \o <<"=">> \o encode(p[2])

\* UrlUtils::joinPath
joinPath(base, path) ==
    LET joined == IF base # <<>> /\ Last(base) # "/" THEN base \o <<"/">> ELSE base
        cleanPath == IF path # <<>> /\ Head(path) = "/" THEN Tail(path) ELSE path
    IN  joined \o cleanPath

-----------------------------------------------------------------------------
(* Authentication providers *)

\* static base64_chars
base64_chars ==
    <<"A","B","C","D","E","F","G","H","I","J","K","L","M","N","O","P","Q","R","S","T",
      "U","V","W","X","Y","Z","a","b","c","d","e","f","g","h","i","j","k","l","m","n",
      "o","p","q","r","s","t","u","v","w","x","y","z","0","1","2","3","4","5","6","7",
      "8","9","+","/">>

Pow2(n) == 2 ^ n

\* the int accumulator val of base64_encode, as the two 16-bit halves of its
\* 32-bit pattern
Int32(hi, lo) == [hi |-> hi, lo |-> lo]

\* (val << 8) + c on an accumulator that keeps 8 bits only
Shl8AddNarrow(val, c) == Int32(0, ((val.lo * 256) + c) % 256)

\* (val << 8) + c on the 32-bit pattern
Shl8Add(val, c) ==
    LET low == (val.lo * 256) + c
    IN  Int32(((val.hi * 256) + (low \div Pow2(16))) % Pow2(16), low % Pow2(16))

\* (val >> shift) & 0x3F, for 0 <= shift <= 16
Shr6Bits(val, shift) ==
    ((val.lo \div Pow2(shift)) + ((val.hi % 64) * Pow2(16 - shift))) % 64

\* the inner while loop of base64_encode: emit while valb >= 0
RECURSIVE Base64Drain(_, _, _)
Base64Drain(val, valb, encoded) ==
    IF valb >= 0
    THEN Base64Drain(val, valb - 6,
                     Append(encoded, base64_chars[Shr6Bits(val, valb) + 1]))
    ELSE [valb |-> valb, encoded |-> encoded]

\* the for loop of base64_encode
RECURSIVE Base64Loop(_, _, _, _)
Base64Loop(input, val, valb, encoded) ==
    IF input = <<>> THEN [val |-> val, valb |-> valb, encoded |-> encoded]
    ELSE LET v == Shl8Add(val, CharCode[Head(input)])
             d == Base64Drain(v, valb + 8, encoded)
         IN  Base64Loop(Tail(input), v, d.valb, d.encoded)

RECURSIVE Base64Pad(_)
Base64Pad(encoded) ==
    IF Len(encoded) % 4 # 0 THEN Base64Pad(Append(encoded, "=")) ELSE encoded

\* static base64_encode
base64_encode(input) ==
    LET l == Base64Loop(input, Int32(0, 0), -6, <<>>)
        tail == IF l.valb > -6
                THEN Append(l.encoded,
                            base64_chars[Shr6Bits(Shl8Add(l.val, 0), l.valb + 8) + 1])
                ELSE l.encoded
    IN  Base64Pad(tail)

BearerPrefix == <<"B","e","a","r","e","r"," ">>
BasicPrefix == <<"B","a","s","i","c"," ">>

BearerTokenAuthProvider(token) == [type |-> "BEARER_TOKEN", token |-> token]
ApiKeyAuthProvider(apiKey, headerName) ==
    [type |-> "API_KEY", apiKey |-> apiKey, headerName |-> headerName]
BasicAuthProvider(username, password) ==
    [type |-> "BASIC_AUTH", username |-> username, password |-> password]
CustomAuthProvider(headers) == [type |-> "CUSTOM", headers |-> headers]

\* ApiKeyAuthProvider constructed without a header name (default argument)
ApiKeyAuthProviderDefault(apiKey) == ApiKeyAuthProvider(apiKey, "X-API-Key")

\* AuthenticationProvider::getType of each variant
getType(p) == p.type

\* a null std::shared_ptr<AuthenticationProvider>
NoProvider == [type |-> "none"]

\* the empty header / parameter map
EmptyMap == [k \in {} |-> <<>>]

\* AuthenticationProvider::isValid of each variant
isValid(p) ==
    CASE p.type = "BEARER_TOKEN" -> p.token # <<>>
      [] p.type = "API_KEY"      -> p.apiKey # <<>> /\ p.headerName # ""
      [] p.type = "BASIC_AUTH"   -> p.username # <<>> /\ p.password # <<>>
      [] p.type = "CUSTOM"       -> DOMAIN p.headers # {}

\* getAuthHeaders with a Bearer override that leaves out the scheme
getAuthHeadersBare(p) ==
    CASE p.type = "BEARER_TOKEN" -> ("Authorization" :> p.token)
      [] p.type = "API_KEY"      -> (p.headerName :> p.apiKey)
      [] p.type = "BASIC_AUTH"   ->
            ("Authorization" :>
                (BasicPrefix \o base64_encode(p.username \o <<":">> \o p.password)))
      [] p.type = "CUSTOM"       -> p.headers

\* AuthenticationProvider::getAuthHeaders of each variant: a map name -> value
getAuthHeaders(p) ==
    CASE p.type = "BEARER_TOKEN" -> ("Authorization" :> (BearerPrefix \o p.token))
      [] p.type = "API_KEY"      -> (p.headerName :> p.apiKey)
      [] p.type = "BASIC_AUTH"   ->
            ("Authorization" :>
                (BasicPrefix \o base64_encode(p.username \o <<":">> \o p.password)))
      [] p.type = "CUSTOM"       -> p.headers

\* std::to_string of a header count
to_string(n) == <<"0", "1", "2", "3", "4">>[n + 1]

\* toString with a BearerTokenAuthProvider override that prints the token
toStringWithToken(p) ==
    CASE p.type = "BEARER_TOKEN" -> <<"BearerTokenAuth[token=">> \o p.token \o <<"]">>
      [] p.type = "API_KEY"      -> <<"ApiKeyAuth[header=", p.headerName, ", key=***]">>
      [] p.type = "BASIC_AUTH"   ->
            <<"BasicAuth[username=">> \o p.username \o <<", password=***]">>
      [] p.type = "CUSTOM"       ->
            <<"CustomAuth[headers=", to_string(Cardinality(DOMAIN p.headers)), "]">>

\* AuthenticationProvider::toString of each variant
toString(p) ==
    CASE p.type = "BEARER_TOKEN" -> <<"BearerTokenAuth[token=***]">>
      [] p.type = "API_KEY"      -> <<"ApiKeyAuth[header=", p.headerName, ", key=***]">>
      [] p.type = "BASIC_AUTH"   ->
            <<"BasicAuth[username=">> \o p.username \o <<", password=***]">>
      [] p.type = "CUSTOM"       ->
            <<"CustomAuth[headers=", to_string(Cardinality(DOMAIN p.headers)), "]">>

-----------------------------------------------------------------------------
(* Header maps and header lists *)

\* the header names of the model in the order std::map iterates them (ASCII)
HeaderNameOrder ==
    <<"", "Authorization", "Content-Type", "User-Agent", "X-API-Key", "X-Trace",
      "authorization", "content-type", "x-trace">>

\* the case-insensitive identity of a header name
Lower(name) ==
    CASE name \in {"Authorization", "authorization"} -> "authorization"
      [] name \in {"Content-Type", "content-type"}   -> "content-type"
      [] name \in {"X-Trace", "x-trace"}             -> "x-trace"
      [] name = "User-Agent"                         -> "user-agent"
      [] name = "X-API-Key"                          -> "x-api-key"
      [] OTHER                                       -> name

\* the entries of a map, in iteration order, as <<name, value>> lines
RECURSIVE MapLinesFrom(_, _)
MapLinesFrom(m, i) ==
    IF i > Len(HeaderNameOrder) THEN <<>>
    ELSE (IF HeaderNameOrder[i] \in DOMAIN m
          THEN <<<<HeaderNameOrder[i], m[HeaderNameOrder[i]]>>>>
          ELSE <<>>) \o MapLinesFrom(m, i + 1)

MapLines(m) == MapLinesFrom(m, 1)

ApplicationJson ==
    <<"a","p","p","l","i","c","a","t","i","o","n","/","j","s","o","n">>

-----------------------------------------------------------------------------
(* HttpClient::request, as functions of what it reads *)

JsonNull == [t |-> "null", text |-> <<>>]
JsonObject(text) == [t |-> "object", text |-> text]

\* a JSON value that is a string (what Json(std::string) constructs)
JsonString(text) == [t |-> "string", text |-> text]

\* nlohmann::json::dump escapes the quotes and backslashes of a string value
RECURSIVE Escape(_)
Escape(text) ==
    IF text = <<>> THEN <<>>
    ELSE (IF Head(text) \in {"\"", "\\"} THEN <<"\\", Head(text)>> ELSE <<Head(text)>>)
         \o Escape(Tail(text))

\* nlohmann::json::dump: the compact text of an object, a string in quotes
dump(data) ==
    IF data.t = "string" THEN <<"\"">> \o Escape(data.text) \o <<"\"">>
    ELSE data.text

\* nlohmann::json::dump (strict error handler) throws type_error 316 for a
\* string that is not UTF-8; 0xE9 opens a three-byte sequence and no
\* continuation byte is in the alphabet, so every 0xE9 is ill-formed
dumpThrows(data) ==
    /\ data.t = "string"
    /\ \E i \in 1..Len(data.text) : data.text[i] = "0xE9"

\* the exception dump() throws
TypeError == [kind |-> "nlohmann::json::type_error", statusCode |-> 0, cause |-> "none"]

\* lines 208-221: curl_slist_free_all releases a list that was built
SlistFrees(headerList) == IF headerList # <<>> THEN 1 ELSE 0

\* lines 138-142: the request body
RequestBody(rc) == IF rc.data.t # "null" THEN dump(rc.data) ELSE <<>>

\* line 128: the URL handed to CURLOPT_URL
RequestUrl(cfg, rc) == cfg.baseUrl \o rc.url

\* line 136: the value handed to CURLOPT_TIMEOUT, in seconds
RequestTimeout(cfg, rc) == cfg.timeout \div 1000

\* a method switch whose DELETE case hands the body to CURLOPT_POSTFIELDS too
RequestPostFieldsWithDelete(rc) ==
    IF rc.method \in {"POST", "PUT", "PATCH", "DELETE"} THEN RequestBody(rc) ELSE <<>>

\* lines 144-175: the body handed to CURLOPT_POSTFIELDS (<<>>: not set)
RequestPostFields(rc) ==
    IF rc.method \in {"POST", "PUT", "PATCH"} THEN RequestBody(rc) ELSE <<>>

\* lines 177-202: the curl_slist handed to CURLOPT_HTTPHEADER
RequestHeaderList(cfg, auth, rc) ==
    (IF auth.type # "none" THEN MapLines(getAuthHeaders(auth)) ELSE <<>>)
    \o MapLines(rc.headers)
    \o (IF RequestBody(rc) # <<>> /\ "Content-Type" \notin DOMAIN rc.headers
        THEN <<<<"Content-Type", ApplicationJson>>>>
        ELSE <<>>)

\* what the server does on the n-th attempt of a call: it fails the first
\* srv.failCount attempts with srv.failWith and answers srv.then afterwards
ServerOutcome(srv, n) == IF n <= srv.failCount THEN srv.failWith ELSE srv.then

\* an HTTP status received (curl_easy_perform returned CURLE_OK)
Status(n) == [curl |-> "CURLE_OK", status |-> n]
\* a failure before any status (curl_easy_perform returned an error code)
TransportFailure(code) == [curl |-> code, status |-> 0]

\* lines 207-226: what one curl_easy_perform outcome becomes for the caller
Surface(outcome) ==
    IF outcome.curl # "CURLE_OK"
    THEN [kind |-> "std::runtime_error", statusCode |-> 0, cause |-> outcome.curl]
    ELSE [kind |-> "HttpResponse", statusCode |-> outcome.status, cause |-> "none"]

\* the error class the taxonomy (spec 4.3) assigns to an outcome, named as in
\* DataApiError.h; request() itself assigns none
ErrorClassOf(outcome) ==
    IF outcome.curl = "CURLE_OPERATION_TIMEDOUT" THEN "TimeoutError"
    ELSE IF outcome.curl # "CURLE_OK" THEN "NetworkError"
    ELSE CASE outcome.status \in 200..299 -> "HttpResponse"
           [] outcome.status = 400 -> "ValidationError"
           [] outcome.status = 401 -> "AuthenticationError"
           [] outcome.status = 403 -> "AuthorizationError"
           [] outcome.status = 404 -> "NotFoundError"
           [] outcome.status = 409 -> "ConflictError"
           [] outcome.status = 429 -> "RateLimitError"
           [] outcome.status = 503 -> "ServiceUnavailableError"
           [] OTHER -> "HttpError"

\* isRetryable() with an HttpError override that has no upper bound
isRetryableUnbounded(class, statusCode) ==
    CASE class \in {"RateLimitError", "TimeoutError", "NetworkError",
                    "ServiceUnavailableError"} -> TRUE
      [] class = "HttpError" -> statusCode >= 500
      [] OTHER -> FALSE

\* the isRetryable() overrides of the error classes
isRetryable(class, statusCode) ==
    CASE class \in {"RateLimitError", "TimeoutError", "NetworkError",
                    "ServiceUnavailableError"} -> TRUE
      [] class = "HttpError" -> statusCode >= 500 /\ statusCode < 600
      [] OTHER -> FALSE

RetryableOutcome(outcome) == isRetryable(ErrorClassOf(outcome), outcome.status)

\* a retry loop: attempt n was made; go on while the outcome asks for it
RECURSIVE RetryLoop(_, _, _, _, _)
RetryLoop(cfg, srv, n, limit, anyError) ==
    IF /\ cfg.enableRetry
       /\ n < limit
       /\ IF anyError THEN ErrorClassOf(ServerOutcome(srv, n)) # "HttpResponse"
                      ELSE RetryableOutcome(ServerOutcome(srv, n))
    THEN RetryLoop(cfg, srv, n + 1, limit, anyError)
    ELSE [attempts |-> n, result |-> Surface(ServerOutcome(srv, n)), refreshes |-> 0]

\* Perform with a retry loop whose bound is off by one
PerformOffByOne(cfg, srv) ==
    RetryLoop(cfg, srv, 1, cfg.maxRetries + 2, FALSE)

\* Perform with a retry loop that repeats after every outcome but a 2xx
PerformRetryAll(cfg, srv) ==
    RetryLoop(cfg, srv, 1, cfg.maxRetries + 1, TRUE)

\* Perform with a 401 branch: refresh() is called after every 401 and the
\* attempt repeated while a retry is left
RECURSIVE RefreshLoop(_, _, _)
RefreshLoop(cfg, srv, n) ==
    LET outcome == ServerOutcome(srv, n)
        is401 == outcome.curl = "CURLE_OK" /\ outcome.status = 401
    IN  IF is401 /\ n <= cfg.maxRetries
        THEN [RefreshLoop(cfg, srv, n + 1) EXCEPT !.refreshes = @ + 1]
        ELSE [attempts |-> n, result |-> Surface(outcome), refreshes |-> 0]

PerformRefreshing(cfg, srv) == RefreshLoop(cfg, srv, 1)

\* lines 204-227: curl_easy_perform is called once and its outcome surfaced;
\* nothing in request() calls authProvider->refresh()
Perform(cfg, srv) ==
    [attempts |-> 1, result |-> Surface(ServerOutcome(srv, 1)), refreshes |-> 0]

NoResult == [kind |-> "none", statusCode |-> 0, cause |-> "none"]
\* a fresh easy handle; verifyPeer and proxy are libcurl's defaults for
\* CURLOPT_SSL_VERIFYPEER (on) and CURLOPT_PROXY (none); cleanups counts the
\* curl_easy_cleanup calls on the handle and slistFrees the
\* curl_slist_free_all calls on its header list
NoEasy ==
    [method |-> "none", url |-> <<>>, timeout |-> 0, postFields |-> <<>>,
     headers |-> <<>>, verifyPeer |-> TRUE, proxy |-> <<>>,
     cleanups |-> 0, slistFrees |-> 0]
NoRequest ==
    [method |-> "none", url |-> <<>>, headers |-> EmptyMap, params |-> <<>>,
     data |-> JsonNull, timeout |-> 0]
NoServer == [failWith |-> Status(0), failCount |-> 0, then |-> Status(0)]

\* struct HttpRequestConfig
HttpRequestConfig(method, url, headers, params, data) ==
    [method |-> method, url |-> url, headers |-> headers, params |-> params,
     data |-> data, timeout |-> 30000]

\* the settings of the engine a call can read
Settings == [config |-> config, authProvider |-> authProvider]

InFlight == pc \notin {"idle", "done"}

\* no caller above the verb helpers has acted
NoClient == [op |-> "none", outcome |-> "none"]

-----------------------------------------------------------------------------
(* HttpClient::request and the verb helpers, each as one whole call *)

\* HttpClient::request, lines 117-227
request(rc, srv) ==
    /\ pc = "idle"
    /\ pc' = "done"
    /\ req' = rc
    /\ server' = srv
    /\ IF dumpThrows(rc.data)
       THEN \* line 141 throws: the handle has its URL and timeout and is
            \* left as it is
            /\ easy' = [NoEasy EXCEPT !.url = RequestUrl(config, rc),
                                      !.timeout = RequestTimeout(config, rc)]
            /\ attempts' = 0
            /\ result' = TypeError
            /\ refreshes' = 0
       ELSE /\ easy' = [method |-> rc.method,
                        url |-> RequestUrl(config, rc),
                        timeout |-> RequestTimeout(config, rc),
                        postFields |-> RequestPostFields(rc),
                        headers |-> RequestHeaderList(config, authProvider, rc),
                        verifyPeer |-> NoEasy.verifyPeer,
                        proxy |-> NoEasy.proxy,
                        cleanups |-> 1,
                        slistFrees |->
                            SlistFrees(RequestHeaderList(config, authProvider, rc))]
            /\ attempts' = Perform(config, srv).attempts
            /\ result' = Perform(config, srv).result
            /\ refreshes' = Perform(config, srv).refreshes
    /\ snaps' = {Settings}
    /\ sleeps' = <<>>
    /\ UNCHANGED <<config, authProvider, lifeVars, wiped>>

\* the call has returned or thrown: its stack-local state is gone
return ==
    /\ pc = "done"
    /\ pc' = "idle"
    /\ req' = NoRequest
    /\ easy' = NoEasy
    /\ server' = NoServer
    /\ attempts' = 0
    /\ result' = NoResult
    /\ snaps' = {}
    /\ sleeps' = <<>>
    /\ refreshes' = 0
    /\ client' = NoClient
    /\ UNCHANGED <<config, authProvider, lifeVars, wiped>>

\* HttpClient::get, lines 65-72
get(endpoint, params, headers, srv) ==
    request(HttpRequestConfig("GET", endpoint, headers, params, JsonNull), srv)

\* HttpClient::post, lines 74-81
post(endpoint, data, headers, srv) ==
    request(HttpRequestConfig("POST", endpoint, headers, <<>>, data), srv)

\* HttpClient::put, lines 83-90
put(endpoint, data, headers, srv) ==
    request(HttpRequestConfig("PUT", endpoint, headers, <<>>, data), srv)

\* HttpClient::del, lines 92-98
del(endpoint, headers, srv) ==
    request(HttpRequestConfig("DELETE", endpoint, headers, <<>>, JsonNull), srv)

\* HttpClient::head, lines 100-106
head(endpoint, headers, srv) ==
    request(HttpRequestConfig("HEAD", endpoint, headers, <<>>, JsonNull), srv)

\* HttpClient::patch, lines 108-115
patch(endpoint, data, headers, srv) ==
    request(HttpRequestConfig("PATCH", endpoint, headers, <<>>, data), srv)

-----------------------------------------------------------------------------
(* HttpClient::request step by step, for calls that run beside a mutator.
   request() takes no lock and makes no copy of config or authProvider: each
   step reads the member as it is when the step runs. *)

\* lines 117-125: the call starts
requestBegin(rc, srv) ==
    /\ pc = "idle"
    /\ pc' = "begun"
    /\ req' = rc
    /\ server' = srv
    /\ easy' = [NoEasy EXCEPT !.method = rc.method]
    /\ attempts' = 0
    /\ result' = NoResult
    /\ snaps' = {Settings}
    /\ sleeps' = <<>>
    /\ refreshes' = 0
    /\ UNCHANGED <<config, authProvider, lifeVars, wiped>>

\* lines 127-131: reads config.baseUrl
requestUrl ==
    /\ pc = "begun"
    /\ pc' = "url"
    /\ easy' = [easy EXCEPT !.url = RequestUrl(config, req)]
    /\ UNCHANGED <<config, authProvider, req, server, attempts, result, snaps, lifeVars,
                   sleeps, refreshes, client, wiped>>

\* lines 136-175: reads config.timeout, then sets method and body
requestOptions ==
    /\ pc = "url"
    /\ IF dumpThrows(req.data)
       THEN /\ pc' = "done"
            /\ easy' = [easy EXCEPT !.timeout = RequestTimeout(config, req)]
            /\ result' = TypeError
       ELSE /\ pc' = "options"
            /\ easy' = [easy EXCEPT !.timeout = RequestTimeout(config, req),
                                    !.postFields = RequestPostFields(req)]
            /\ UNCHANGED result
    /\ UNCHANGED <<config, authProvider, req, server, attempts, snaps, lifeVars,
                   sleeps, refreshes, client, wiped>>

\* lines 177-202: reads authProvider
requestHeaders ==
    /\ pc = "options"
    /\ pc' = "headers"
    /\ easy' = [easy EXCEPT !.headers = RequestHeaderList(config, authProvider, req)]
    /\ UNCHANGED <<config, authProvider, req, server, attempts, result, snaps, lifeVars,
                   sleeps, refreshes, client, wiped>>

\* lines 204-227: curl_easy_perform and the outcome
requestPerform ==
    /\ pc = "headers"
    /\ pc' = "done"
    /\ attempts' = Perform(config, server).attempts
    /\ result' = Perform(config, server).result
    /\ refreshes' = Perform(config, server).refreshes
    /\ easy' = [easy EXCEPT !.cleanups = 1, !.slistFrees = SlistFrees(easy.headers)]
    /\ UNCHANGED <<config, authProvider, req, server, snaps, sleeps, lifeVars, client,
                   wiped>>

-----------------------------------------------------------------------------
(* Construction, moves and destruction of HttpClient objects.  libcurl keeps
   a count of curl_global_init calls; curl_global_cleanup does nothing at
   count 0, lowers the count otherwise and releases the stack when it
   reaches 0. *)

Living(e) == engines[e] \in {"alive", "moved-from"}

\* HttpClient::HttpClient(config, authProvider), lines 44-47
Construct(e) ==
    /\ engines[e] = "unborn"
    /\ engines' = [engines EXCEPT ![e] = "alive"]
    /\ curlInits' = curlInits + 1
    /\ curlRefs' = curlRefs + 1
    /\ UNCHANGED <<curlCleanups, config, authProvider, callVars, dataApiClient, client,
                   wiped>>

\* HttpClient::HttpClient(HttpClient&&), lines 53-55: no curl_global_init
MoveConstruct(e, other) ==
    /\ engines[e] = "unborn"
    /\ Living(other)
    /\ engines' = [engines EXCEPT ![e] = engines[other], ![other] = "moved-from"]
    /\ UNCHANGED <<curlInits, curlCleanups, curlRefs, config, authProvider, callVars,
                   dataApiClient, client, wiped>>

\* HttpClient::operator=(HttpClient&&), lines 57-63
MoveAssign(e, other) ==
    /\ e # other
    /\ Living(e)
    /\ Living(other)
    /\ engines' = [engines EXCEPT ![e] = engines[other], ![other] = "moved-from"]
    /\ UNCHANGED <<curlInits, curlCleanups, curlRefs, config, authProvider, callVars,
                   dataApiClient, client, wiped>>

\* HttpClient::~HttpClient, lines 49-51
Destroy(e) ==
    /\ Living(e)
    /\ engines' = [engines EXCEPT ![e] = "destroyed"]
    /\ curlCleanups' = curlCleanups + 1
    /\ curlRefs' = IF curlRefs > 0 THEN curlRefs - 1 ELSE 0
    /\ UNCHANGED <<curlInits, config, authProvider, callVars, dataApiClient, client,
                   wiped>>

-----------------------------------------------------------------------------
(* The mutators of HttpClient *)

\* a mutator that runs while a call is in flight adds a setting to its history
Mutate(newConfig, newAuth) ==
    /\ config' = newConfig
    /\ authProvider' = newAuth
    /\ snaps' = IF InFlight
                THEN snaps \cup {[config |-> newConfig, authProvider |-> newAuth]}
                ELSE snaps
    /\ UNCHANGED <<pc, req, easy, server, attempts, result, sleeps, refreshes, lifeVars,
                   client>>

\* HttpClient::updateConfig
updateConfig(newConfig) ==
    /\ newConfig # config
    /\ Mutate(newConfig, authProvider)
    /\ UNCHANGED wiped

\* HttpClient::updateAuthProvider
updateAuthProvider(newAuthProvider) ==
    /\ newAuthProvider # authProvider
    /\ Mutate(config, newAuthProvider)
    /\ wiped' = NoProvider

\* HttpClient::setTimeout
setTimeout(timeoutMs) ==
    /\ timeoutMs # config.timeout
    /\ Mutate([config EXCEPT !.timeout = timeoutMs], authProvider)
    /\ UNCHANGED wiped

\* HttpClient::setVerifySSL
setVerifySSL(verify) ==
    /\ verify # config.verifySSL
    /\ Mutate([config EXCEPT !.verifySSL = verify], authProvider)
    /\ UNCHANGED wiped

\* HttpClient::setProxy
setProxy(proxyUrl) ==
    /\ proxyUrl # config.proxyUrl
    /\ Mutate([config EXCEPT !.proxyUrl = proxyUrl], authProvider)
    /\ UNCHANGED wiped

\* a clearAuthentication whose BasicAuthProvider override forgets the user
\* name only
ClearedKeepsPassword(p) ==
    CASE p.type = "BEARER_TOKEN" -> [p EXCEPT !.token = <<>>]
      [] p.type = "API_KEY"      -> [p EXCEPT !.apiKey = <<>>]
      [] p.type = "BASIC_AUTH"   -> [p EXCEPT !.username = <<>>]
      [] p.type = "CUSTOM"       -> [p EXCEPT !.headers = EmptyMap]

\* clearAuthentication of each variant (ApiKey keeps its header name)
Cleared(p) ==
    CASE p.type = "BEARER_TOKEN" -> [p EXCEPT !.token = <<>>]
      [] p.type = "API_KEY"      -> [p EXCEPT !.apiKey = <<>>]
      [] p.type = "BASIC_AUTH"   -> [p EXCEPT !.username = <<>>, !.password = <<>>]
      [] p.type = "CUSTOM"       -> [p EXCEPT !.headers = EmptyMap]

\* BearerTokenAuthProvider::setToken on the engine's provider
setToken(newToken) ==
    /\ authProvider.type = "BEARER_TOKEN"
    /\ newToken # authProvider.token
    /\ Mutate(config, [authProvider EXCEPT !.token = newToken])
    /\ wiped' = NoProvider

\* CustomAuthProvider::addHeader on the engine's provider
addHeader(key, value) ==
    /\ authProvider.type = "CUSTOM"
    /\ Mutate(config, [authProvider EXCEPT
                           !.headers = [k \in DOMAIN authProvider.headers \cup {key} |->
                                           IF k = key THEN value
                                           ELSE authProvider.headers[k]]])
    /\ wiped' = NoProvider

\* CustomAuthProvider::removeHeader on the engine's provider
removeHeader(key) ==
    /\ authProvider.type = "CUSTOM"
    /\ key \in DOMAIN authProvider.headers
    /\ Mutate(config, [authProvider EXCEPT
                           !.headers = [k \in DOMAIN authProvider.headers \ {key} |->
                                           authProvider.headers[k]]])
    /\ UNCHANGED wiped

\* AuthenticationProvider::clearAuthentication on the engine's provider
clearAuthentication ==
    /\ authProvider.type # "none"
    /\ Cleared(authProvider) # authProvider
    /\ Mutate(config, Cleared(authProvider))
    /\ wiped' = authProvider

-----------------------------------------------------------------------------
(* Inputs *)

BaseUrlA == <<"h","/","a">>
BaseUrlB == <<"h","/","b","/">>
UserAgent == <<"u","a">>

\* ClientConfigBuilder::defaultConfig, on a short base URL
DefaultConfig ==
    [baseUrl |-> BaseUrlA, timeout |-> 30000, enableLogging |-> FALSE,
     enableRetry |-> TRUE, maxRetries |-> 3, retryDelay |-> 1000,
     defaultHeaders |-> EmptyMap, userAgent |-> UserAgent,
     verifySSL |-> TRUE, proxyUrl |-> <<>>]

\* the valid configurations that differ in their retry policy
RetryConfigs ==
    {[DefaultConfig EXCEPT !.enableRetry = r, !.maxRetries = m] :
        r \in BOOLEAN, m \in 0..MaxRetriesBound}

Statuses == {200, 204, 400, 401, 403, 404, 409, 418, 429, 500, 503}

Outcomes ==
    {Status(n) : n \in Statuses}
    \cup {TransportFailure(c) :
            c \in {"CURLE_COULDNT_RESOLVE_HOST", "CURLE_OPERATION_TIMEDOUT"}}

MaxFailCount == MaxRetriesBound + 1

Servers ==
    {s \in [failWith : Outcomes, failCount : 0..MaxFailCount, then : Outcomes] :
        s.failCount = 0 => s.failWith = s.then}

Endpoint == <<"/","w">>
Body == JsonObject(<<"{","}">>)

InitCall ==
    /\ pc = "idle"
    /\ req = NoRequest
    /\ easy = NoEasy
    /\ server = NoServer
    /\ attempts = 0
    /\ result = NoResult
    /\ snaps = {}
    /\ sleeps = <<>>
    /\ refreshes = 0
    /\ client = NoClient
    /\ wiped = NoProvider

\* no DataApiClient has been constructed
NoDataApiClient == [config_ |-> DefaultConfig, httpClient_ |-> 0]

InitLife ==
    /\ engines = [e \in 1..MaxEngines |-> "unborn"]
    /\ curlInits = 0
    /\ curlCleanups = 0
    /\ curlRefs = 0
    /\ dataApiClient = NoDataApiClient

-----------------------------------------------------------------------------
(* Spec: calls through one engine against servers that fail and answer *)

Init ==
    /\ config \in RetryConfigs
    /\ authProvider = BearerTokenAuthProvider(<<"t">>)
    /\ InitCall
    /\ InitLife

\* each call is made by the calling thread when it is idle
Next ==
    \/ /\ pc = "idle"
       /\ UNCHANGED client
       /\ \E srv \in Servers, m \in {"GET", "POST", "PUT", "DELETE", "HEAD", "PATCH"} :
            request(HttpRequestConfig(m, Endpoint, EmptyMap, <<>>, Body), srv)
    \/ /\ pc = "idle"
       /\ UNCHANGED client
       /\ \E srv \in Servers : get(Endpoint, <<>>, EmptyMap, srv)
    \/ /\ pc = "idle"
       /\ UNCHANGED client
       /\ \E srv \in Servers : post(Endpoint, Body, EmptyMap, srv)
    \/ /\ pc = "idle"
       /\ UNCHANGED client
       /\ \E srv \in Servers : put(Endpoint, Body, EmptyMap, srv)
    \/ /\ pc = "idle"
       /\ UNCHANGED client
       /\ \E srv \in Servers : del(Endpoint, EmptyMap, srv)
    \/ /\ pc = "idle"
       /\ UNCHANGED client
       /\ \E srv \in Servers : head(Endpoint, EmptyMap, srv)
    \/ /\ pc = "idle"
       /\ UNCHANGED client
       /\ \E srv \in Servers : patch(Endpoint, Body, EmptyMap, srv)
    \/ return
    \/ /\ pc = "idle"
       /\ \E c \in RetryConfigs : updateConfig(c)

Spec == Init /\ [][Next]_vars

-----------------------------------------------------------------------------
(* SpecWire: what one call puts on the wire, over configurations, providers,
   caller headers, query parameters and bodies; the server answers 200 *)

WireConfigs ==
    {[DefaultConfig EXCEPT !.baseUrl = b, !.defaultHeaders = d] :
        b \in {BaseUrlA, BaseUrlB},
        d \in {EmptyMap, ("X-Trace" :> <<"a">>)}}

Providers ==
    {NoProvider,
     BearerTokenAuthProvider(<<"t">>), BearerTokenAuthProvider(<<>>),
     ApiKeyAuthProvider(<<"k">>, "X-API-Key"), ApiKeyAuthProvider(<<>>, "X-API-Key"),
     ApiKeyAuthProvider(<<"k">>, ""),
     BasicAuthProvider(<<"u">>, <<"p">>), BasicAuthProvider(<<>>, <<"p">>),
     BasicAuthProvider(<<"u">>, <<>>),
     CustomAuthProvider(("X-Trace" :> <<"v">>)), CustomAuthProvider(EmptyMap)}

CallerHeaders ==
    {EmptyMap, ("X-Trace" :> <<"b">>), ("Authorization" :> <<"x">>),
     ("Content-Type" :> <<"t">>), ("content-type" :> <<"t">>)}

\* std::map<std::string, std::string> values, entries in key order
ParameterMaps ==
    {<<>>, <<<<(<<"k">>), (<<"v">>)>>>>,
     <<<<(<<"k">>), (<<"a", " ", "b">>)>>, <<(<<"p">>), (<<"1">>)>>>>}

Endpoints == {<<"/","w">>, <<"w">>}

OkServer == [failWith |-> Status(200), failCount |-> 0, then |-> Status(200)]

InitWire ==
    /\ config \in WireConfigs
    /\ authProvider \in Providers
    /\ InitCall
    /\ InitLife

NextWire ==
    \/ /\ pc = "idle"
       /\ UNCHANGED client
       /\ \E m \in {"GET", "POST", "PUT", "DELETE", "HEAD", "PATCH"},
             e \in Endpoints, h \in CallerHeaders, q \in ParameterMaps,
             d \in {JsonNull, Body} :
            request(HttpRequestConfig(m, e, h, q, d), OkServer)
    \/ /\ pc = "idle"
       /\ UNCHANGED client
       /\ \E e \in Endpoints, h \in CallerHeaders, q \in ParameterMaps :
            get(e, q, h, OkServer)
    \/ /\ pc = "idle"
       /\ UNCHANGED client
       /\ \E e \in Endpoints, h \in CallerHeaders, d \in {JsonNull, Body} :
            post(e, d, h, OkServer)
    \/ return
    \/ /\ pc = "idle"
       /\ \E c \in WireConfigs : updateConfig(c)
    \/ /\ pc = "idle"
       /\ \E p \in Providers : updateAuthProvider(p)
    \/ /\ pc = "idle"
       /\ clearAuthentication

SpecWire == InitWire /\ [][NextWire]_vars

-----------------------------------------------------------------------------
(* SpecConc: one thread inside request() while another thread calls the
   mutators *)

ConcConfigs ==
    {[DefaultConfig EXCEPT !.baseUrl = BaseUrlA, !.timeout = 30000],
     [DefaultConfig EXCEPT !.baseUrl = BaseUrlB, !.timeout = 10000]}

ConcProviders == {BearerTokenAuthProvider(<<"t">>), ApiKeyAuthProvider(<<"k">>, "X-API-Key")}

InitConc ==
    /\ config \in ConcConfigs
    /\ authProvider \in ConcProviders
    /\ InitCall
    /\ InitLife

\* a mutator may run at any time; the number that run during one call is bounded
MayMutate == InFlight => Cardinality(snaps) <= MaxMutations

NextConc ==
    \/ /\ pc = "idle"
       /\ UNCHANGED client
       /\ \E m \in {"GET", "POST"} :
            requestBegin(HttpRequestConfig(m, Endpoint, EmptyMap, <<>>, Body), OkServer)
    \/ requestUrl
    \/ requestOptions
    \/ requestHeaders
    \/ requestPerform
    \/ return
    \/ /\ MayMutate
       /\ \E c \in ConcConfigs : updateConfig(c)
    \/ /\ MayMutate
       /\ \E p \in ConcProviders : updateAuthProvider(p)
    \/ /\ MayMutate
       /\ \E t \in {10000, 30000} : setTimeout(t)
    \/ /\ MayMutate
       /\ \E v \in BOOLEAN : setVerifySSL(v)
    \/ /\ MayMutate
       /\ \E x \in {<<>>, <<"x">>} : setProxy(x)

SpecConc == InitConc /\ [][NextConc]_vars

-----------------------------------------------------------------------------
(* SpecLife: HttpClient objects constructed, moved and destroyed in any order *)

InitLifecycle ==
    /\ config = DefaultConfig
    /\ authProvider = NoProvider
    /\ InitCall
    /\ InitLife

NextLife ==
    \/ \E e \in 1..MaxEngines : Construct(e)
    \/ \E e, other \in 1..MaxEngines : MoveConstruct(e, other)
    \/ \E e, other \in 1..MaxEngines : MoveAssign(e, other)
    \/ \E e \in 1..MaxEngines : Destroy(e)

SpecLife == InitLifecycle /\ [][NextLife]_vars

-----------------------------------------------------------------------------
(* Claims *)

\* the outcome of the last attempt the call made
LastOutcome == ServerOutcome(server, attempts)

\* C1: with retry enabled a call does not end on a retryable outcome while
\* retries remain, and the outcome it surfaces is the last one; with
\* maxRetries = 2 against a server that always answers 503 it makes 3
\* attempts and surfaces ServiceUnavailable.
C1_RetriesRetryableOutcomes ==
    (pc = "done" /\ config.enableRetry) =>
        /\ attempts <= config.maxRetries => ~RetryableOutcome(LastOutcome)
        /\ (config.maxRetries = 2 /\ server.failWith = Status(503)
                /\ server.then = Status(503))
            => (attempts = 3 /\ result.kind = "ServiceUnavailableError")

C3_NonRetryableOnce ==
    (pc = "done" /\ ~RetryableOutcome(ServerOutcome(server, 1))) => attempts = 1

C3_Witness ==
    /\ pc = "done"
    /\ config.enableRetry
    /\ config.maxRetries = MaxRetriesBound
    /\ ServerOutcome(server, 1) = Status(404)
    /\ server.then = Status(200)

\* C4: request returns a Response only for a 2xx status; for every 4xx/5xx
\* status it surfaces the typed error the status maps to.
C4_TypedErrorPerStatus ==
    (pc = "done" /\ LastOutcome.curl = "CURLE_OK") =>
        /\ result.kind = "HttpResponse" <=> LastOutcome.status \in 200..299
        /\ LastOutcome.status >= 400 => result.kind = ErrorClassOf(LastOutcome)

\* C5: a failure before any status is surfaced as a Network error (Timeout
\* for a timeout) with status 0 and a cause, after 1 + maxRetries attempts
\* when retry is enabled and every attempt fails.
C5_TransportFailureTyped ==
    (pc = "done" /\ LastOutcome.curl # "CURLE_OK") =>
        /\ result.kind = ErrorClassOf(LastOutcome)
        /\ result.statusCode = 0
        /\ result.cause # "none"
        /\ (config.enableRetry /\ server.failWith.curl # "CURLE_OK"
                /\ server.failCount = MaxFailCount)
            => attempts = 1 + config.maxRetries

\* the case-insensitive header names of the model
LowerNames == {Lower(HeaderNameOrder[i]) : i \in 1..Len(HeaderNameOrder)}

SetsName(m, k) == \E n \in DOMAIN m : Lower(n) = k
ValueIn(m, k) == m[CHOOSE n \in DOMAIN m : Lower(n) = k]
Max(S) == CHOOSE x \in S : \A y \in S : y <= x

\* the five header sources of spec 4.4, lowest precedence first
HeaderSources(cfg, auth, rc) ==
    <<("User-Agent" :> cfg.userAgent),
      cfg.defaultHeaders,
      IF auth.type # "none" THEN getAuthHeaders(auth) ELSE EmptyMap,
      rc.headers,
      IF rc.data.t # "null" /\ ~SetsName(rc.headers, "content-type")
      THEN ("Content-Type" :> ApplicationJson) ELSE EmptyMap>>

WireCount(k) == Len(SelectSeq(easy.headers, LAMBDA l : Lower(l[1]) = k))
WireValue(k) ==
    easy.headers[CHOOSE i \in 1..Len(easy.headers) : Lower(easy.headers[i][1]) = k][2]

\* C6: every header name, compared case-insensitively, is on the wire exactly
\* once with the value of the highest-numbered source that set it (and not
\* at all when no source set it).
C6_HeaderPrecedence ==
    pc = "done" =>
        \A k \in LowerNames :
            LET srcs == HeaderSources(config, authProvider, req)
                setters == {i \in 1..Len(srcs) : SetsName(srcs[i], k)}
            IN  IF setters = {} THEN WireCount(k) = 0
                ELSE /\ WireCount(k) = 1
                     /\ WireValue(k) = ValueIn(srcs[Max(setters)], k)

\* C7: the URL dispatched is joinPath(baseUrl, path), followed by '?' and the
\* encoded query string when the call has query parameters.
C7_UrlComposition ==
    pc = "done" =>
        easy.url = joinPath(config.baseUrl, req.url)
                   \o (IF req.params # <<>>
                       THEN <<"?">> \o buildQueryString(req.params) ELSE <<>>)

\* C8: a provider whose isValid() is false produces no headers, and a call
\* made with it carries only the caller's headers and the default
\* Content-Type.
C8_InvalidProviderNoHeaders ==
    (authProvider.type # "none" /\ ~isValid(authProvider)) =>
        /\ DOMAIN getAuthHeaders(authProvider) = {}
        /\ pc = "done" => easy.headers = RequestHeaderList(config, NoProvider, req)

\* C9: a call that ran beside mutators used, for its base URL, its timeout
\* and its auth headers, the values of one and the same setting of the
\* engine among those that existed during the call.
C9_OneSnapshotPerCall ==
    pc = "done" =>
        \E s \in snaps :
            /\ easy.url = RequestUrl(s.config, req)
            /\ easy.timeout = RequestTimeout(s.config, req)
            /\ easy.headers = RequestHeaderList(s.config, s.authProvider, req)

\* C10: curl_global_cleanup is never called more often than
\* curl_global_init, and while an HttpClient object lives the HTTP stack is
\* initialised.
C10_StackUpWhileEngineLives ==
    /\ curlCleanups <= curlInits
    /\ (\E e \in 1..MaxEngines : Living(e)) => curlRefs > 0

\* base64("u:p") = "dTpw", base64(":p") = "OnA=", base64("u:") = "dTo="
Base64Examples ==
    /\ base64_encode(<<"u", ":", "p">>) = <<"d", "T", "p", "w">>
    /\ base64_encode(<<":", "p">>) = <<"O", "n", "A", "=">>
    /\ base64_encode(<<"u", ":">>) = <<"d", "T", "o", "=">>

-----------------------------------------------------------------------------
(* SpecTimeout: calls whose HttpRequestConfig carries its own timeout, through
   engines whose configured timeout is any valid value (timeout > 0) *)

\* HttpRequestConfig::timeout's default member initialiser
DefaultRequestTimeout == 30000

\* valid configured timeouts in milliseconds (ClientConfig::isValid: > 0)
ConfigTimeouts == {1, 999, 1000, 1999, 10000, 30000}

\* per-call timeouts in milliseconds; the default stands for "not given"
RequestTimeouts == {DefaultRequestTimeout, 500, 5000}

TimeoutServers ==
    {OkServer,
     [failWith |-> TransportFailure("CURLE_OPERATION_TIMEDOUT"), failCount |-> 1,
      then |-> Status(200)]}

InitTimeout ==
    /\ config \in {[DefaultConfig EXCEPT !.timeout = t] : t \in ConfigTimeouts}
    /\ authProvider = NoProvider
    /\ InitCall
    /\ InitLife

NextTimeout ==
    \/ /\ pc = "idle"
       /\ UNCHANGED client
       /\ \E m \in {"GET", "POST", "HEAD"}, t \in RequestTimeouts, srv \in TimeoutServers :
            request([HttpRequestConfig(m, Endpoint, EmptyMap, <<>>, JsonNull)
                        EXCEPT !.timeout = t], srv)
    \/ return
    \/ /\ pc = "idle"
       /\ \E t \in ConfigTimeouts : setTimeout(t)

SpecTimeout == InitTimeout /\ [][NextTimeout]_vars

\* the timeout the call is to be bounded by, in milliseconds
EffectiveTimeoutMs ==
    IF req.timeout # DefaultRequestTimeout THEN req.timeout ELSE config.timeout

\* C11: the limit handed to the transport for a call is the per-call timeout
\* when one is given and the configured timeout otherwise, in whole seconds,
\* and it is a positive number of seconds (0 means "no limit" to libcurl).
C11_AttemptTimeBounded ==
    pc = "done" =>
        /\ easy.timeout = EffectiveTimeoutMs \div 1000
        /\ easy.timeout > 0

-----------------------------------------------------------------------------
(* The resource clients: each operation calls one verb helper of the engine
   and then judges the HttpResponse by its status *)

\* one operation of a resource client: the verb helper it calls, the single
\* status it takes for success, what it throws on 404 ("none": no such
\* branch) and what it throws on every other status
Operation(name, verb, path, expect, notFound, failure) ==
    [name |-> name, verb |-> verb, path |-> path, expect |-> expect,
     notFound |-> notFound, failure |-> failure]

WorkflowOperations ==
    {Operation("WorkflowClient::list", "GET", <<"/", "w">>, 200, "none", "HttpError"),
     Operation("WorkflowClient::getById", "GET", <<"/", "w", "/", "1">>, 200,
               "NotFoundError", "HttpError"),
     Operation("WorkflowClient::create", "POST", <<"/", "w">>, 201, "none", "HttpError"),
     Operation("WorkflowClient::update", "PUT", <<"/", "w", "/", "1">>, 200,
               "NotFoundError", "HttpError"),
     Operation("WorkflowClient::deleteWorkflow", "DELETE", <<"/", "w", "/", "1">>, 204,
               "NotFoundError", "HttpError"),
     Operation("WorkflowClient::execute", "POST", <<"/", "w", "/", "1", "/", "x">>, 200,
               "NotFoundError", "HttpError")}

OtherOperations ==
    {Operation("AiProviderClient::testConfiguration", "POST", <<"/", "a", "/", "t">>, 200,
               "std::runtime_error", "std::runtime_error"),
     Operation("ProjectClient::list", "GET", <<"/", "p">>, 200, "none", "std::runtime_error"),
     Operation("ProjectClient::getById", "GET", <<"/", "p", "/", "1">>, 200,
               "std::runtime_error", "std::runtime_error"),
     Operation("ProjectClient::create", "POST", <<"/", "p">>, 201, "none",
               "std::runtime_error"),
     Operation("ProjectClient::deleteProject", "DELETE", <<"/", "p", "/", "1">>, 204,
               "std::runtime_error", "std::runtime_error")}

Operations == WorkflowOperations \cup OtherOperations

CreateOperations == {"WorkflowClient::create", "ProjectClient::create"}
ListOperations == {"WorkflowClient::list", "ProjectClient::list"}

\* the body a resource client passes to post()/put(): WorkflowClient passes
\* json.dump(), a std::string, the others pass the Json object
OperationBody(o) ==
    IF o.name \in {"WorkflowClient::create", "WorkflowClient::update",
                   "WorkflowClient::execute"}
    THEN JsonString(dump(Body))
    ELSE Body

\* the status checks that follow the verb helper: what the operation gives
\* its caller for what the engine surfaced (an engine exception propagates)
ClientOutcome(o, surfaced) ==
    IF surfaced.kind # "HttpResponse"
    THEN [kind |-> surfaced.kind, statusCode |-> surfaced.statusCode]
    ELSE IF o.notFound # "none" /\ surfaced.statusCode = 404
    THEN [kind |-> o.notFound, statusCode |-> 404]
    ELSE IF surfaced.statusCode # o.expect
    THEN [kind |-> o.failure, statusCode |-> surfaced.statusCode]
    ELSE [kind |-> "returned", statusCode |-> surfaced.statusCode]

\* the verb helper an operation calls
operationVerb(o, srv) ==
    \/ o.verb = "GET" /\ get(o.path, <<>>, EmptyMap, srv)
    \/ o.verb = "POST" /\ post(o.path, OperationBody(o), EmptyMap, srv)
    \/ o.verb = "PUT" /\ put(o.path, OperationBody(o), EmptyMap, srv)
    \/ o.verb = "DELETE" /\ del(o.path, EmptyMap, srv)

\* an operation other than list, as one whole call (the response body is
\* taken to decode)
operation(o, srv) ==
    /\ o.name \notin ListOperations
    /\ operationVerb(o, srv)
    /\ client' = [op |-> o.name, outcome |-> ClientOutcome(o, result'),
                  value |-> "none"]

-----------------------------------------------------------------------------
(* Pages: the JSON of a page as the function from its keys to their values *)

\* the keys every decoder reads besides the page number and the page size
CommonPageKeys == {"content", "totalElements", "totalPages", "first", "last"}

\* template to_json(Json&, const PageResult<T>&), Types.h lines 1131-1143
to_json(p) ==
    [content |-> p.content, pageNumber |-> p.pageNumber, pageSize |-> p.pageSize,
     totalElements |-> p.totalElements, totalPages |-> p.totalPages,
     first |-> p.first, last |-> p.last, empty |-> p.empty]

\* template from_json(const Json&, PageResult<T>&), Types.h lines 1145-1155:
\* j.at(key) throws out_of_range for a key that is absent
from_json(j) ==
    IF (CommonPageKeys \cup {"pageNumber", "pageSize", "empty"}) \subseteq DOMAIN j
    THEN [kind |-> "returned",
          page |-> [content |-> j.content, pageNumber |-> j.pageNumber,
                    pageSize |-> j.pageSize, totalElements |-> j.totalElements,
                    totalPages |-> j.totalPages, first |-> j.first,
                    last |-> j.last, empty |-> j.empty]]
    ELSE [kind |-> "nlohmann::json::out_of_range", page |-> "none"]

\* the decoding in the list operations (WorkflowClient.cpp lines 20-38, the
\* same in the other clients): json[key] of an absent key is null, and
\* get<int>() of null throws type_error; "empty" defaults to false
DecodeList(j) ==
    IF (CommonPageKeys \cup {"number", "size"}) \subseteq DOMAIN j
    THEN [kind |-> "returned",
          page |-> [content |-> j.content, pageNumber |-> j.number,
                    pageSize |-> j.size, totalElements |-> j.totalElements,
                    totalPages |-> j.totalPages, first |-> j.first,
                    last |-> j.last,
                    empty |-> IF "empty" \in DOMAIN j THEN j.empty ELSE FALSE]]
    ELSE [kind |-> "nlohmann::json::type_error", page |-> "none"]

\* a list operation as one whole call: the verb helper, the status check and
\* the decoding of the body the server sent
list(o, body, srv) ==
    /\ o.name \in ListOperations
    /\ operationVerb(o, srv)
    /\ client' =
        LET judged == ClientOutcome(o, result')
            decoded == DecodeList(body)
        IN  IF judged.kind # "returned"
            THEN [op |-> o.name, outcome |-> judged, value |-> "none", body |-> body]
            ELSE [op |-> o.name,
                  outcome |-> [kind |-> decoded.kind, statusCode |-> judged.statusCode],
                  value |-> decoded.page, body |-> body]

\* the application decodes a page with the generic decoder (json.get<PageResult<T>>())
decodePage(body) ==
    /\ client = NoClient
    /\ client' = [op |-> "from_json",
                  outcome |-> [kind |-> from_json(body).kind, statusCode |-> 0],
                  value |-> from_json(body).page, body |-> body]
    /\ UNCHANGED <<config, authProvider, callVars, lifeVars, wiped>>

\* the application encodes a page (Json j = page)
encodePage(p) ==
    /\ client = NoClient
    /\ client' = [op |-> "to_json", outcome |-> [kind |-> "returned", statusCode |-> 0],
                  value |-> to_json(p), body |-> "none"]
    /\ UNCHANGED <<config, authProvider, callVars, lifeVars, wiped>>

\* the application drops what a decoder or encoder gave it
discard ==
    /\ pc = "idle"
    /\ client # NoClient
    /\ client' = NoClient
    /\ UNCHANGED <<config, authProvider, callVars, lifeVars, wiped>>

-----------------------------------------------------------------------------
(* HttpClient::testConnection *)

HealthPath == <<"/", "h", "e", "a", "l", "t", "h">>

\* a testConnection that takes every status below 400 for a live server
ConnectionOkBelow400(surfaced) ==
    surfaced.kind = "HttpResponse" /\ surfaced.statusCode >= 200 /\ surfaced.statusCode < 400

\* lines 234-237: the value testConnection returns for what request() surfaced;
\* catch (...) turns every exception into false
ConnectionOk(surfaced) ==
    surfaced.kind = "HttpResponse" /\ surfaced.statusCode >= 200 /\ surfaced.statusCode < 300

\* HttpClient::testConnection, lines 229-239
testConnection(srv) ==
    /\ request([HttpRequestConfig("HEAD", HealthPath, EmptyMap, <<>>, JsonNull)
                   EXCEPT !.timeout = DefaultRequestTimeout], srv)
    /\ client' = [op |-> "testConnection",
                  outcome |-> [kind |-> "returned", statusCode |-> result'.statusCode],
                  value |-> ConnectionOk(result')]

\* DataApiClient.cpp line 26: the value DataApiClient::testConnection returns
\* for what get() surfaced; catch (const std::exception&) gives false
DataApiConnectionOk(surfaced) ==
    surfaced.kind = "HttpResponse" /\ surfaced.statusCode = 200

\* DataApiClient::testConnection, DataApiClient.cpp lines 23-30
DataApiClient_testConnection(srv) ==
    /\ get(HealthPath, <<>>, EmptyMap, srv)
    /\ client' = [op |-> "DataApiClient::testConnection",
                  outcome |-> [kind |-> "returned", statusCode |-> result'.statusCode],
                  value |-> DataApiConnectionOk(result')]

-----------------------------------------------------------------------------
(* SpecClient: the callers of the verb helpers (the resource clients,
   testConnection) and the page codecs, against servers that answer once *)

ClientStatuses == {200, 201, 204, 299, 300, 400, 404, 500}

ClientServers ==
    {[failWith |-> o, failCount |-> 0, then |-> o] :
        o \in {Status(n) : n \in ClientStatuses}
              \cup {TransportFailure("CURLE_COULDNT_CONNECT")}}

\* the JSON bodies a server may send for a page: either spelling of the page
\* number and size, "empty" present or not, values that agree or disagree
PageJsons ==
    {[content |-> c, totalElements |-> te, totalPages |-> tp, first |-> f, last |-> l]
        @@ (IF long THEN ("pageNumber" :> n) @@ ("pageSize" :> s)
                    ELSE ("number" :> n) @@ ("size" :> s))
        @@ (IF e = "absent" THEN EmptyMap ELSE ("empty" :> (e = "true"))) :
        c \in {<<>>, <<"i1">>, <<"i1", "i2">>}, te \in {0, 2, 3}, tp \in {0, 1, 2},
        f \in BOOLEAN, l \in BOOLEAN, long \in BOOLEAN, n \in {0, 1}, s \in {1, 2},
        e \in {"true", "false", "absent"}}

\* the pages an application may encode
Pages == {DecodeList(j).page : j \in {b \in PageJsons : "number" \in DOMAIN b}}

InitClient ==
    /\ config \in {[DefaultConfig EXCEPT !.baseUrl = b] : b \in {BaseUrlA, BaseUrlB}}
    /\ authProvider = BearerTokenAuthProvider(<<"t">>)
    /\ InitCall
    /\ InitLife

NextClient ==
    \/ /\ pc = "idle" /\ client = NoClient
       /\ \E o \in Operations, srv \in ClientServers : operation(o, srv)
    \/ /\ pc = "idle" /\ client = NoClient
       /\ \E o \in Operations, body \in PageJsons, srv \in ClientServers :
            list(o, body, srv)
    \/ /\ pc = "idle" /\ client = NoClient
       /\ \E srv \in ClientServers : testConnection(srv)
    \/ /\ pc = "idle" /\ client = NoClient
       /\ \E srv \in ClientServers : DataApiClient_testConnection(srv)
    \/ /\ pc = "idle"
       /\ \E body \in PageJsons : decodePage(body)
    \/ /\ pc = "idle"
       /\ \E p \in Pages : encodePage(p)
    \/ discard
    \/ return

SpecClient == InitClient /\ [][NextClient]_vars

\* what the caller of a resource client finds when the call is over
ClientDone(ops) == pc = "done" /\ client.op \in ops

\* C12: a resource-client operation other than create completes when the
\* engine got any 2xx status, and for every other outcome raises the error
\* class the engine's classification assigns to that outcome.
C12_NoStatusReinterpretation ==
    ClientDone({o.name : o \in Operations} \ CreateOperations) =>
        IF LastOutcome.curl = "CURLE_OK" /\ LastOutcome.status \in 200..299
        THEN client.outcome.kind \in {"returned", "nlohmann::json::type_error"}
        ELSE client.outcome.kind = ErrorClassOf(LastOutcome)

\* the PageEnvelope invariants of a decoded page
PageInvariants(p) ==
    /\ p.pageNumber >= 0
    /\ Len(p.content) <= p.pageSize
    /\ p.first <=> (p.pageNumber = 0)
    /\ p.last <=> (p.pageNumber = p.totalPages - 1 \/ p.totalPages = 0)
    /\ p.empty <=> (Len(p.content) = 0)
    /\ p.pageSize > 0 =>
           p.totalPages = (p.totalElements + p.pageSize - 1) \div p.pageSize

\* C13: every page a list operation returns satisfies the PageEnvelope
\* invariants, whatever JSON the server sent.
C13_PageInvariantsHold ==
    (ClientDone(ListOperations) /\ client.outcome.kind = "returned") =>
        PageInvariants(client.value)

\* the same page JSON with the page number and size under the other spelling
Respell(j) ==
    LET rest == [k \in DOMAIN j \ {"number", "size", "pageNumber", "pageSize"} |-> j[k]]
    IN  IF "number" \in DOMAIN j
        THEN rest @@ ("pageNumber" :> j["number"]) @@ ("pageSize" :> j["size"])
        ELSE rest @@ ("number" :> j["pageNumber"]) @@ ("size" :> j["pageSize"])

\* two decodings both gave a page, and the same one
SamePage(d1, d2) ==
    /\ d1.kind = "returned"
    /\ d2.kind = "returned"
    /\ d1.page = d2.page

\* C14: a list operation and the generic from_json decode a page under either
\* spelling of the page number and size, to the same PageResult, and to_json
\* writes pageNumber and pageSize.
C14_BothSpellingsAccepted ==
    /\ (ClientDone(ListOperations) /\ result.kind = "HttpResponse"
            /\ result.statusCode = 200) =>
           /\ client.outcome.kind = "returned"
           /\ SamePage(DecodeList(client.body), DecodeList(Respell(client.body)))
    /\ (client.op = "from_json" /\ "empty" \in DOMAIN client.body) =>
           /\ client.outcome.kind = "returned"
           /\ SamePage(from_json(client.body), from_json(Respell(client.body)))
    /\ client.op = "to_json" =>
           /\ {"pageNumber", "pageSize"} \subseteq DOMAIN client.value
           /\ {"number", "size"} \cap DOMAIN client.value = {}

\* C17: testConnection makes one HEAD request for /health, returns true
\* exactly when a status in 200..299 was received, and never throws: a
\* transport failure gives false.
C17_TestConnectionNeverThrows ==
    ClientDone({"testConnection"}) =>
        /\ attempts = 1
        /\ easy.method = "HEAD"
        /\ req.url = HealthPath
        /\ client.outcome.kind = "returned"
        /\ client.value = (LastOutcome.curl = "CURLE_OK" /\ LastOutcome.status \in 200..299)

\* testConnection ran into a transport failure and returned false
C17_Witness ==
    /\ ClientDone({"testConnection"})
    /\ LastOutcome.curl # "CURLE_OK"
    /\ result.kind = "std::runtime_error"
    /\ client.value = FALSE

-----------------------------------------------------------------------------
(* SpecBackoff: calls against servers that answer 429 (with or without a
   Retry-After header) or 503 some times and 200 afterwards *)

\* a 429 answer whose Retry-After header says r seconds (0: no header)
RateLimited(r) == [curl |-> "CURLE_OK", status |-> 429, retryAfter |-> r]

RetryAfters == {0, 1, 2}
RetryDelays == {500, 1000}

BackoffConfigs ==
    {[DefaultConfig EXCEPT !.enableRetry = r, !.maxRetries = m, !.retryDelay = d] :
        r \in BOOLEAN, m \in 0..MaxRetriesBound, d \in RetryDelays}

BackoffServers ==
    {[failWith |-> o, failCount |-> n, then |-> Status(200)] :
        o \in {RateLimited(r) : r \in RetryAfters} \cup {Status(503)},
        n \in 1..MaxFailCount}

InitBackoff ==
    /\ config \in BackoffConfigs
    /\ authProvider = NoProvider
    /\ InitCall
    /\ InitLife

NextBackoff ==
    \/ /\ pc = "idle"
       /\ UNCHANGED client
       /\ \E srv \in BackoffServers : post(Endpoint, Body, EmptyMap, srv)
    \/ /\ pc = "idle"
       /\ UNCHANGED client
       /\ \E srv \in BackoffServers : get(Endpoint, <<>>, EmptyMap, srv)
    \/ return
    \/ /\ pc = "idle"
       /\ \E c \in BackoffConfigs : updateConfig(c)

SpecBackoff == InitBackoff /\ [][NextBackoff]_vars

\* retry_delay * 2^(k-1), raised to Retry-After when attempt k was rate limited
ExpectedSleep(cfg, srv, k) ==
    LET backoff == cfg.retryDelay * Pow2(k - 1)
        before == ServerOutcome(srv, k)
    IN  IF before.status = 429 /\ "retryAfter" \in DOMAIN before
        THEN Max({backoff, before.retryAfter * 1000})
        ELSE backoff

\* C15: a call sleeps once before each retry, the k-th time for
\* retry_delay * 2^(k-1) ms or, after a 429 with Retry-After r, for the larger
\* of that and r * 1000 ms; a 429 with retries enabled and left is retried
\* after such a sleep.
C15_BackoffSleep ==
    pc = "done" =>
        /\ Len(sleeps) = attempts - 1
        /\ \A k \in 1..Len(sleeps) : sleeps[k] = ExpectedSleep(config, server, k)
        /\ (config.enableRetry /\ config.maxRetries >= 1
                /\ ServerOutcome(server, 1).status = 429) =>
               (Len(sleeps) >= 1 /\ sleeps[1] >= ExpectedSleep(config, server, 1))

-----------------------------------------------------------------------------
(* SpecError: the application constructs an error of each class with each
   status and asks it isRetryable() *)

ErrorClasses ==
    {"DataApiError", "ValidationError", "HttpError", "AuthenticationError",
     "AuthorizationError", "NotFoundError", "ConflictError", "RateLimitError",
     "TimeoutError", "NetworkError", "ServiceUnavailableError"}

ErrorStatuses == {-1, 0, 200, 400, 404, 418, 499, 500, 502, 599, 600, 999}

\* error.isRetryable() on an error of the class, constructed with the status
askRetryable(class, statusCode) ==
    /\ client = NoClient
    /\ client' = [op |-> "isRetryable",
                  outcome |-> [kind |-> class, statusCode |-> statusCode],
                  value |-> isRetryable(class, statusCode)]
    /\ UNCHANGED <<config, authProvider, callVars, lifeVars, wiped>>

InitError ==
    /\ config = DefaultConfig
    /\ authProvider = NoProvider
    /\ InitCall
    /\ InitLife

NextError ==
    \/ /\ pc = "idle"
       /\ \E class \in ErrorClasses, statusCode \in ErrorStatuses :
            askRetryable(class, statusCode)
    \/ discard

SpecError == InitError /\ [][NextError]_vars

AlwaysRetryable ==
    {"RateLimitError", "TimeoutError", "NetworkError", "ServiceUnavailableError"}

\* C16 as stated: isRetryable() is true for RateLimit, Timeout, Network and
\* ServiceUnavailable, for a generic HttpError exactly when status >= 500,
\* and false for every other class.
C16_RetryableAsStated ==
    client.op = "isRetryable" =>
        (client.value <=>
            \/ client.outcome.kind \in AlwaysRetryable
            \/ client.outcome.kind = "HttpError" /\ client.outcome.statusCode >= 500)

\* C16 amended: isRetryable() is true for RateLimit, Timeout, Network and
\* ServiceUnavailable, for a generic HttpError exactly when
\* 500 <= status <= 599, and false for every other class, whatever the status.
C16_RetryableByKindAndStatus ==
    client.op = "isRetryable" =>
        (client.value <=>
            \/ client.outcome.kind \in AlwaysRetryable
            \/ client.outcome.kind = "HttpError" /\ client.outcome.statusCode \in 500..599)

\* an HttpError with a status of 600 or more was asked and said no
C16_Witness ==
    /\ client.op = "isRetryable"
    /\ client.outcome.kind = "HttpError"
    /\ client.outcome.statusCode >= 600
    /\ client.value = FALSE

-----------------------------------------------------------------------------
(* SpecAuth: the provider an engine shares with the application, under the
   provider's mutators, updateAuthProvider and calls through the engine *)

\* the non-empty sequences over S of length at most n
SeqsUpTo(S, n) == UNION {[1..k -> S] : k \in 1..n}

Tokens == {<<"t">>, <<"s">>}
ApiKeys == {<<"k">>, <<"x">>}
Usernames == SeqsUpTo({"u", "a"}, MaxUserLen)
Passwords == SeqsUpTo({"p", "0xE9"}, MaxPasswordLen)
HeaderValues == {<<"v">>, <<"b">>}
CustomNames == {"X-API-Key", "X-Trace"}

\* the providers an application constructs (other tokens and header values
\* arrive through setToken and addHeader)
AuthProviders ==
    {BearerTokenAuthProvider(<<"t">>)}
    \cup {ApiKeyAuthProviderDefault(k) : k \in ApiKeys}
    \cup {ApiKeyAuthProvider(<<"k">>, "X-Trace")}
    \cup {BasicAuthProvider(u, p) : u \in Usernames, p \in Passwords}
    \cup {CustomAuthProvider(("X-Trace" :> <<"v">>)), CustomAuthProvider(EmptyMap)}

\* the application calls getAuthHeaders() and getType() on the provider and
\* keeps what they returned
askHeaders ==
    /\ client = NoClient
    /\ authProvider.type # "none"
    /\ client' = [op |-> "getAuthHeaders",
                  outcome |-> [kind |-> getType(authProvider), statusCode |-> 0],
                  value |-> getAuthHeaders(authProvider), body |-> authProvider]
    /\ UNCHANGED <<config, authProvider, callVars, lifeVars, wiped>>

InitAuth ==
    /\ config = DefaultConfig
    /\ authProvider \in AuthProviders
    /\ InitCall
    /\ InitLife

NextAuth ==
    \/ /\ pc = "idle"
       /\ UNCHANGED client
       /\ get(Endpoint, <<>>, EmptyMap, OkServer)
    \/ return
    \/ /\ pc = "idle" /\ client = NoClient
       /\ \E p \in AuthProviders : updateAuthProvider(p)
    \/ /\ pc = "idle"
       /\ \E t \in Tokens \cup {<<>>} : setToken(t)
    \/ /\ pc = "idle"
       /\ \E k \in CustomNames, v \in HeaderValues : addHeader(k, v)
    \/ /\ pc = "idle"
       /\ \E k \in CustomNames : removeHeader(k)
    \/ /\ pc = "idle"
       /\ clearAuthentication
    \/ /\ pc = "idle"
       /\ askHeaders
    \/ discard

SpecAuth == InitAuth /\ [][NextAuth]_vars

\* the values of a map
Values(m) == {m[k] : k \in DOMAIN m}

\* the non-empty secrets a provider holds
SecretsOf(p) ==
    (CASE p.type = "BEARER_TOKEN" -> {p.token}
       [] p.type = "API_KEY"      -> {p.apiKey}
       [] p.type = "BASIC_AUTH"   -> {p.password}
       [] p.type = "CUSTOM"       -> Values(p.headers)
       [] OTHER                   -> {}) \ {<<>>}

\* the providers that differ from p in their secret at most
SecretVariants(p) ==
    CASE p.type = "BEARER_TOKEN" -> {[p EXCEPT !.token = t] : t \in Tokens \cup {<<>>}}
      [] p.type = "API_KEY"      -> {[p EXCEPT !.apiKey = k] : k \in ApiKeys \cup {<<>>}}
      [] p.type = "BASIC_AUTH"   -> {[p EXCEPT !.password = q] : q \in Passwords \cup {<<>>}}
      [] p.type = "CUSTOM"       ->
            {[p EXCEPT !.headers = h] : h \in [DOMAIN p.headers -> HeaderValues]}

\* s occurs in text as a run of consecutive characters
Contains(text, s) ==
    \E i \in 1..(Len(text) - Len(s) + 1) : SubSeq(text, i, i + Len(s) - 1) = s

\* C18: from clearAuthentication until setToken or addHeader supplies new
\* credentials, through every call made meanwhile, the provider is not
\* valid, no header it produces (and none on the wire) contains a secret it
\* held before, and its headers are the same whatever those secrets were.
C18_ClearedStaysCleared ==
    wiped.type # "none" =>
        /\ ~isValid(authProvider)
        /\ \A s \in SecretsOf(wiped) :
              /\ \A v \in Values(getAuthHeaders(authProvider)) : ~Contains(v, s)
              /\ pc = "done" =>
                    \A i \in 1..Len(easy.headers) : ~Contains(easy.headers[i][2], s)
        /\ \A w \in SecretVariants(wiped) :
              getAuthHeaders(Cleared(w)) = getAuthHeaders(authProvider)

\* a call went through the engine after a Basic provider with a password
\* was cleared
C18_Witness ==
    /\ wiped.type = "BASIC_AUTH"
    /\ wiped.password # <<>>
    /\ pc = "done"
    /\ easy.headers # <<>>

\* C19: toString() of the provider is the same for every provider of its
\* variant that differs from it in the secret only.
C19_ToStringHidesSecret ==
    authProvider.type # "none" =>
        \A q \in SecretVariants(authProvider) : toString(q) = toString(authProvider)

\* a Bearer provider holds a token it got through setToken
C19_Witness ==
    /\ authProvider.type = "BEARER_TOKEN"
    /\ authProvider.token = <<"s">>

\* the bytes of a string
RECURSIVE Bytes(_)
Bytes(text) == IF text = <<>> THEN <<>> ELSE <<CharCode[Head(text)]>> \o Bytes(Tail(text))

\* RFC 4648 base64 of a byte sequence, three bytes at a time
RECURSIVE RefBase64(_)
RefBase64(bytes) ==
    IF bytes = <<>> THEN <<>>
    ELSE IF Len(bytes) = 1
    THEN <<base64_chars[(bytes[1] \div 4) + 1],
           base64_chars[((bytes[1] % 4) * 16) + 1], "=", "=">>
    ELSE IF Len(bytes) = 2
    THEN <<base64_chars[(bytes[1] \div 4) + 1],
           base64_chars[((bytes[1] % 4) * 16) + (bytes[2] \div 16) + 1],
           base64_chars[((bytes[2] % 16) * 4) + 1], "=">>
    ELSE <<base64_chars[(bytes[1] \div 4) + 1],
           base64_chars[((bytes[1] % 4) * 16) + (bytes[2] \div 16) + 1],
           base64_chars[((bytes[2] % 16) * 4) + (bytes[3] \div 64) + 1],
           base64_chars[(bytes[3] % 64) + 1]>>
         \o RefBase64(SubSeq(bytes, 4, Len(bytes)))

\* username + ":" + password
Credentials(p) == p.username \o <<":">> \o p.password

\* C20: for a Basic provider with a non-empty user and password the
\* Authorization header is "Basic " followed by the RFC 4648 base64 of
\* "user:password", '=' padded to a multiple of 4 characters, also for
\* credentials of more than 4 bytes, and that is what goes on the wire.
C20_BasicHeaderIsBase64 ==
    (authProvider.type = "BASIC_AUTH" /\ authProvider.username # <<>>
            /\ authProvider.password # <<>>) =>
        LET value == getAuthHeaders(authProvider)["Authorization"]
        IN  /\ value = BasicPrefix \o RefBase64(Bytes(Credentials(authProvider)))
            /\ (Len(value) - Len(BasicPrefix)) % 4 = 0
            /\ pc = "done" => easy.headers[1] = <<"Authorization", value>>

\* a call carried credentials of 5 bytes or more with a byte above 127
C20_Witness ==
    /\ authProvider.type = "BASIC_AUTH"
    /\ Len(Credentials(authProvider)) >= 5
    /\ \E i \in 1..Len(authProvider.password) : CharCode[authProvider.password[i]] > 127
    /\ pc = "done"

-----------------------------------------------------------------------------
(* UrlUtils::decode and UrlUtils::parseQueryString *)

\* std::stoi(hex, nullptr, 16) of two hexadecimal digits
HexValue(d) == (CHOOSE i \in 1..16 : HexDigits[i] = d) - 1

\* the character with a given code
CharOf(n) == CHOOSE c \in DOMAIN CharCode : CharCode[c] = n

\* a decode whose test for "two more characters follow" is i + 3 < length
RECURSIVE decodeShort(_)
decodeShort(value) ==
    IF value = <<>> THEN <<>>
    ELSE IF Head(value) = "%" /\ Len(value) > 3
    THEN <<CharOf((HexValue(value[2]) * 16) + HexValue(value[3]))>>
         \o decodeShort(SubSeq(value, 4, Len(value)))
    ELSE IF Head(value) = "+" THEN <<" ">> \o decodeShort(Tail(value))
    ELSE <<Head(value)>> \o decodeShort(Tail(value))

\* UrlUtils::decode, lines 28-47: at '%' with two more characters (i + 2 <
\* length) the two are read as hexadecimal; '+' becomes a space
RECURSIVE decode(_)
decode(value) ==
    IF value = <<>> THEN <<>>
    ELSE IF Head(value) = "%" /\ Len(value) > 2
    THEN <<CharOf((HexValue(value[2]) * 16) + HexValue(value[3]))>>
         \o decode(SubSeq(value, 4, Len(value)))
    ELSE IF Head(value) = "+" THEN <<" ">> \o decode(Tail(value))
    ELSE <<Head(value)>> \o decode(Tail(value))

\* the position of the first c in text, 0 if there is none (std::string::find)
Find(text, c) ==
    IF \E i \in 1..Len(text) : text[i] = c
    THEN CHOOSE i \in 1..Len(text) : text[i] = c /\ \A j \in 1..(i - 1) : text[j] # c
    ELSE 0

\* the pieces std::getline(iss, pair, '&') reads from a query, in order
RECURSIVE SplitPairs(_)
SplitPairs(query) ==
    IF query = <<>> THEN <<>>
    ELSE LET at == Find(query, "&")
         IN  IF at = 0 THEN <<query>>
             ELSE <<SubSeq(query, 1, at - 1)>> \o SplitPairs(SubSeq(query, at + 1, Len(query)))

\* the loop of parseQueryString, lines 84-91: later pairs overwrite earlier ones
RECURSIVE ParsePairs(_, _)
ParsePairs(pairs, params) ==
    IF pairs = <<>> THEN params
    ELSE LET pair == Head(pairs)
             equalPos == Find(pair, "=")
         IN  IF equalPos = 0 THEN ParsePairs(Tail(pairs), params)
             ELSE LET key == decode(SubSeq(pair, 1, equalPos - 1))
                      value == decode(SubSeq(pair, equalPos + 1, Len(pair)))
                  IN  ParsePairs(Tail(pairs),
                                 [k \in DOMAIN params \cup {key} |->
                                     IF k = key THEN value ELSE params[k]])

\* UrlUtils::parseQueryString, lines 68-94: a map key -> value
parseQueryString(queryString) ==
    IF queryString = <<>> THEN EmptyMap
    ELSE ParsePairs(SplitPairs(IF Head(queryString) = "?" THEN Tail(queryString)
                                                           ELSE queryString),
                    EmptyMap)

-----------------------------------------------------------------------------
(* SpecUrl: the application calls the UrlUtils functions *)

\* the strings over S of length at most n, the empty one included
StringsUpTo(S, n) == UNION {[1..k -> S] : k \in 0..n}

Bases == StringsUpTo({"h", "/"}, MaxFragmentLen)
Paths == StringsUpTo({"w", "/"}, MaxFragmentLen)

\* keys of a parameter map, in the order std::map keeps them (ASCII)
QueryKeyOrder ==
    << <<>>, <<" ">>, <<"%">>, <<"&">>, <<"+">>, <<"=">>, <<"?">>, <<"a">>, <<"a", "%">> >>

QueryValues == {<<>>, <<"a">>, <<"a", "%">>, <<"+", " ">>, <<"=", "&">>, <<"?">>}

\* the parameter maps with one or two entries, and the empty one
QueryMaps ==
    {<<>>}
    \cup {<< <<QueryKeyOrder[i], v>> >> : i \in 1..Len(QueryKeyOrder), v \in QueryValues}
    \cup {<< <<QueryKeyOrder[ij[1]], v>>, <<QueryKeyOrder[ij[2]], w>> >> :
            ij \in {x \in (1..Len(QueryKeyOrder)) \X (1..Len(QueryKeyOrder)) : x[1] < x[2]},
            v \in QueryValues, w \in {<<>>, <<"a", "%">>}}

\* UrlUtils::joinPath(base, path) called by the application
callJoinPath(base, path) ==
    /\ client = NoClient
    /\ client' = [op |-> "joinPath", outcome |-> [kind |-> "returned", statusCode |-> 0],
                  value |-> joinPath(base, path), body |-> <<base, path>>]
    /\ UNCHANGED <<config, authProvider, callVars, lifeVars, wiped>>

\* UrlUtils::parseQueryString(UrlUtils::buildQueryString(params)) called by
\* the application
callQueryRoundTrip(params) ==
    /\ client = NoClient
    /\ client' = [op |-> "parseQueryString",
                  outcome |-> [kind |-> "returned", statusCode |-> 0],
                  value |-> parseQueryString(buildQueryString(params)),
                  body |-> params]
    /\ UNCHANGED <<config, authProvider, callVars, lifeVars, wiped>>

InitUrl ==
    /\ config = DefaultConfig
    /\ authProvider = NoProvider
    /\ InitCall
    /\ InitLife

NextUrl ==
    \/ /\ pc = "idle"
       /\ \E base \in Bases, path \in Paths : callJoinPath(base, path)
    \/ /\ pc = "idle"
       /\ \E params \in QueryMaps : callQueryRoundTrip(params)
    \/ discard

SpecUrl == InitUrl /\ [][NextUrl]_vars

\* text without its trailing slashes
RECURSIVE TrimRight(_)
TrimRight(text) ==
    IF text # <<>> /\ Last(text) = "/" THEN TrimRight(SubSeq(text, 1, Len(text) - 1))
    ELSE text

\* text without its leading slashes
RECURSIVE TrimLeft(_)
TrimLeft(text) == IF text # <<>> /\ Head(text) = "/" THEN TrimLeft(Tail(text)) ELSE text

\* C22: joinPath(a + "/", b), joinPath(a, b) and joinPath(a, "/" + b) are
\* equal, and the result is the base fragment, one '/', and the path
\* fragment, for every a and b: empty, ending or starting with '/' or not.
C22_JoinPathIdempotent ==
    client.op = "joinPath" =>
        LET a == client.body[1]
            b == client.body[2]
        IN  /\ joinPath(a \o <<"/">>, b) = client.value
            /\ joinPath(a, <<"/">> \o b) = client.value
            /\ client.value = TrimRight(a) \o <<"/">> \o TrimLeft(b)

\* the parameter map as the set of its <<key, value>> entries
Entries(m) == {<<k, m[k]>> : k \in DOMAIN m}

\* C23: parseQueryString(buildQueryString(m)) is m, for maps whose keys and
\* values are empty or contain '%', '+', '&', '=', '?' or a space, also as
\* their last character.
C23_QueryRoundTrip ==
    client.op = "parseQueryString" =>
        Entries(client.value) = {client.body[i] : i \in 1..Len(client.body)}

\* a map with an empty key and a value that ends in '%' went round
C23_Witness ==
    /\ client.op = "parseQueryString"
    /\ Len(client.body) = 2
    /\ client.body[1][1] = <<>>
    /\ client.body[2][2] = <<"a", "%">>
    /\ \E k \in DOMAIN client.value : client.value[k] = <<"a", "%">>

-----------------------------------------------------------------------------
(* SpecTransport: calls of every method, with and without data, through
   engines whose configuration asks for TLS verification or not and for a
   proxy or not *)

ProxyUrls == {<<>>, <<"p">>}

TransportConfigs ==
    {[DefaultConfig EXCEPT !.verifySSL = v, !.proxyUrl = p] :
        v \in BOOLEAN, p \in ProxyUrls}

TransportServers ==
    {OkServer,
     [failWith |-> Status(500), failCount |-> 0, then |-> Status(500)],
     [failWith |-> TransportFailure("CURLE_SSL_CONNECT_ERROR"), failCount |-> 1,
      then |-> Status(200)]}

InitTransport ==
    /\ config \in TransportConfigs
    /\ authProvider = NoProvider
    /\ InitCall
    /\ InitLife

NextTransport ==
    \/ /\ pc = "idle"
       /\ UNCHANGED client
       /\ \E m \in {"GET", "POST", "PUT", "DELETE", "HEAD", "PATCH"},
             d \in {JsonNull, Body, JsonString(<<"a">>)}, srv \in TransportServers :
            request(HttpRequestConfig(m, Endpoint, EmptyMap, <<>>, d), srv)
    \/ return
    \/ /\ pc = "idle"
       /\ \E v \in BOOLEAN : setVerifySSL(v)
    \/ /\ pc = "idle"
       /\ \E p \in ProxyUrls : setProxy(p)

SpecTransport == InitTransport /\ [][NextTransport]_vars

\* C24: a call is dispatched with the TLS-verification flag and the proxy
\* URL the engine's configuration holds, whether they came from the
\* constructor's config or from setVerifySSL and setProxy.
C24_TlsAndProxyApplied ==
    pc = "done" =>
        /\ easy.verifyPeer = config.verifySSL
        /\ easy.proxy = config.proxyUrl

\* C25: a GET, HEAD or DELETE call hands no body to the transport, whatever
\* its data; a POST, PUT or PATCH call with non-null data hands over the
\* compact JSON text of the data.
C25_BodyOnlyOnWritingMethods ==
    pc = "done" =>
        /\ req.method \in {"GET", "HEAD", "DELETE"} => easy.postFields = <<>>
        /\ (req.method \in {"POST", "PUT", "PATCH"} /\ req.data # JsonNull) =>
               easy.postFields = dump(req.data)

\* a DELETE call was made with data
C25_Witness ==
    /\ pc = "done"
    /\ req.method = "DELETE"
    /\ req.data = Body
    /\ easy.postFields = <<>>

-----------------------------------------------------------------------------
(* Authentication failures inside one call (checked under Spec) *)

Unauthorized(outcome) == outcome.curl = "CURLE_OK" /\ outcome.status = 401

\* C26: a call whose first answer is a 401 makes one attempt, sleeps
\* before no retry and surfaces the 401; no call invokes refresh() more than
\* once, and a call that did not invoke it made no further attempt after a
\* 401.
C26_UnauthorizedNotRetried ==
    pc = "done" =>
        /\ refreshes <= 1
        /\ \A n \in 1..(attempts - 1) :
               Unauthorized(ServerOutcome(server, n)) => refreshes = 1
        /\ Unauthorized(ServerOutcome(server, 1)) =>
               /\ attempts = 1
               /\ sleeps = <<>>
               /\ result = Surface(Status(401))

\* a 401 was answered to an engine that has retries enabled and left
C26_Witness ==
    /\ pc = "done"
    /\ Unauthorized(ServerOutcome(server, 1))
    /\ config.enableRetry
    /\ config.maxRetries >= 2
    /\ authProvider # NoProvider
    /\ result.statusCode = 401

-----------------------------------------------------------------------------
(* SpecHandles: the easy handle and the header list of each call, over
   bodies that can and cannot be serialised, with and without headers *)

HandleBodies == {JsonNull, Body, JsonString(<<"a">>), JsonString(<<"0xE9">>)}

HandleProviders == {NoProvider, BearerTokenAuthProvider(<<"t">>)}

HandleServers ==
    {OkServer,
     [failWith |-> Status(500), failCount |-> 0, then |-> Status(500)],
     [failWith |-> TransportFailure("CURLE_COULDNT_CONNECT"), failCount |-> 1,
      then |-> Status(200)]}

InitHandles ==
    /\ config = DefaultConfig
    /\ authProvider \in HandleProviders
    /\ InitCall
    /\ InitLife

NextHandles ==
    \/ /\ pc = "idle"
       /\ UNCHANGED client
       /\ \E m \in {"GET", "POST", "PUT", "DELETE", "HEAD", "PATCH"},
             d \in HandleBodies, srv \in HandleServers :
            request(HttpRequestConfig(m, Endpoint, EmptyMap, <<>>, d), srv)
    \/ /\ pc = "idle"
       /\ UNCHANGED client
       /\ \E d \in HandleBodies, srv \in HandleServers :
            post(Endpoint, d, EmptyMap, srv)
    \/ return
    \/ /\ pc = "idle"
       /\ \E p \in HandleProviders : updateAuthProvider(p)

SpecHandles == InitHandles /\ [][NextHandles]_vars

\* C28: when a call has returned or thrown, its easy handle has been
\* cleaned up exactly once and its header list, if one was built, freed
\* exactly once.
C28_HandlesReleased ==
    pc = "done" =>
        /\ easy.cleanups = 1
        /\ easy.slistFrees = SlistFrees(easy.headers)

-----------------------------------------------------------------------------
(* The two testConnection functions and the bodies of the resource clients
   (checked under SpecClient) *)

\* C29: for every server outcome, DataApiClient::testConnection returns
\* the boolean HttpClient::testConnection returns for that outcome.
C29_SameVerdict ==
    (pc = "done" /\ client.op \in {"testConnection", "DataApiClient::testConnection"}) =>
        client.value = ConnectionOk(Surface(ServerOutcome(server, 1)))

BodyOperations ==
    {"WorkflowClient::create", "WorkflowClient::update", "WorkflowClient::execute",
     "ProjectClient::create"}

\* C30: the body an operation of a resource client puts on the wire is the
\* JSON text of its record, encoded once.
C30_BodyEncodedOnce ==
    (pc = "done" /\ client.op \in BodyOperations) => easy.postFields = dump(Body)

-----------------------------------------------------------------------------
(* SpecSdk: a DataApiClient, its resource clients and its updateConfig *)

\* DataApiClient.cpp lines 12-17: the HttpClient object the constructor makes
\* and hands to the five resource clients, which keep their shared_ptr to it
ResourceEngine == 1

\* DataApiClient::updateConfig, DataApiClient.cpp lines 98-102: a new
\* HttpClient is made and httpClient_ pointed at it; the object it pointed at
\* is destroyed unless the resource clients still hold it
DataApiClient_updateConfig(newConfig) ==
    /\ pc = "idle"
    /\ \E e \in 1..MaxEngines :
        /\ engines[e] = "unborn"
        /\ \A f \in 1..(e - 1) : engines[f] # "unborn"
        /\ LET old == dataApiClient.httpClient_
               released == old # ResourceEngine
           IN  /\ engines' = [engines EXCEPT ![e] = "alive",
                                             ![old] = IF released THEN "destroyed" ELSE @]
               /\ curlInits' = curlInits + 1
               /\ curlCleanups' = curlCleanups + (IF released THEN 1 ELSE 0)
               /\ curlRefs' = curlRefs + 1 - (IF released THEN 1 ELSE 0)
        /\ dataApiClient' = [config_ |-> newConfig, httpClient_ |-> e]
    /\ UNCHANGED <<config, authProvider, callVars, client, wiped>>

SdkConfigs ==
    {[DefaultConfig EXCEPT !.baseUrl = b, !.timeout = t] :
        b \in {BaseUrlA, BaseUrlB}, t \in {30000, 5000}}

\* the state after DataApiClient::DataApiClient(config, authProvider)
InitSdk ==
    /\ config \in SdkConfigs
    /\ authProvider = BearerTokenAuthProvider(<<"t">>)
    /\ InitCall
    /\ engines = [e \in 1..MaxEngines |-> IF e = ResourceEngine THEN "alive" ELSE "unborn"]
    /\ curlInits = 1
    /\ curlCleanups = 0
    /\ curlRefs = 1
    /\ dataApiClient = [config_ |-> config, httpClient_ |-> ResourceEngine]
    /\ client = NoClient
    /\ wiped = NoProvider

NextSdk ==
    \/ /\ pc = "idle" /\ client = NoClient
       /\ \E o \in Operations, srv \in ClientServers : operation(o, srv)
    \/ return
    \/ /\ pc = "idle"
       /\ \E c \in SdkConfigs : DataApiClient_updateConfig(c)

SpecSdk == InitSdk /\ [][NextSdk]_vars

\* C27: a request made through a resource client is executed by the
\* HttpClient object getHttpClient() returns, with the configuration the
\* DataApiClient holds.
C27_ResourceClientsFollowUpdate ==
    (pc = "done" /\ client.op \in {o.name : o \in Operations}) =>
        /\ dataApiClient.httpClient_ = ResourceEngine
        /\ easy.url = RequestUrl(dataApiClient.config_, req)
        /\ easy.timeout = RequestTimeout(dataApiClient.config_, req)

====
